---- MODULE Spec2Model ----
(***************************************************************************)
(* A model of the SmartCard single-page application (src/App.tsx and its   *)
(* Gemini service): the record deduplication routine deduplicateCards and  *)
(* the component state machine of App (cards, background discovery loop,   *)
(* category refresh).                                                      *)
(*                                                                         *)
(* JavaScript strings are sequences of UTF-16 code units (integers).       *)
(* A JavaScript value that may be a string, undefined or a number is a     *)
(* record [t |-> type tag, s |-> the code units when t = "string"].        *)
(***************************************************************************)
EXTENDS Integers, Sequences, FiniteSets

----------------------------------------------------------------------------
(* JavaScript values and string primitives                                 *)

Str(s) == [t |-> "string", s |-> s]
Undefined == [t |-> "undefined", s |-> <<>>]
NaN == [t |-> "number", s |-> <<>>]

\* String(undefined) = "undefined"
UndefinedText == <<117, 110, 100, 101, 102, 105, 110, 101, 100>>

StringOf(v) == IF v.t = "string" THEN v.s ELSE UndefinedText

\* The binary + of line 21: undefined + undefined is the number NaN; as soon
\* as one operand is a string the other is converted and they are concatenated.
Plus(a, b) ==
  IF a.t = "string" \/ b.t = "string"
    THEN Str(StringOf(a) \o StringOf(b))
    ELSE NaN

\* String.prototype.toLowerCase on one code unit: A-Z and the fullwidth
\* A-Z have a lower-case partner 32 units above; every other unit of the
\* alphabet used here maps to itself.
LowerUnit(c) ==
  IF (c >= 65 /\ c <= 90) \/ (c >= 65313 /\ c <= 65338) THEN c + 32 ELSE c

toLowerCase(s) == [i \in 1..Len(s) |-> LowerUnit(s[i])]

\* The character class [a-z0-9一-龥] of the regular expressions.
KeptUnit(c) ==
  \/ c >= 97 /\ c <= 122
  \/ c >= 48 /\ c <= 57
  \/ c >= 19968 /\ c <= 40869

\* s.replace(/[^a-z0-9一-龥]/g, '')
StripOthers(s) == SelectSeq(s, KeptUnit)

----------------------------------------------------------------------------
(* deduplicateCards, src/App.tsx lines 16-40                               *)

\* Line 21 with the key written the way a bug would: the raw concatenation,
\* neither lower-cased nor stripped.
cardKeyRaw(card) ==
  LET sum == Plus(card.bank, card.name)
  IN  IF sum.t = "string" THEN sum ELSE [t |-> "TypeError", s |-> <<>>]

\* Line 21: (card.bank + card.name).toLowerCase().replace(...).  A number has
\* no toLowerCase method, so the call on NaN raises a TypeError.
cardKey(card) ==
  LET sum == Plus(card.bank, card.name)
  IN  IF sum.t = "string"
        THEN Str(StripOthers(toLowerCase(sum.s)))
        ELSE [t |-> "TypeError", s |-> <<>>]

\* A Map is the sequence of its entries [key, value] in insertion order.
mapHas(map, key) == \E j \in 1..Len(map) : map[j].key = key

mapGet(map, key) ==
  map[CHOOSE j \in 1..Len(map) : map[j].key = key].value

\* Map.prototype.set: a present key keeps its place and takes the new value,
\* an absent key is appended.
mapSet(map, key, value) ==
  IF mapHas(map, key)
    THEN [j \in 1..Len(map) |->
            IF map[j].key = key THEN [key |-> key, value |-> value] ELSE map[j]]
    ELSE Append(map, [key |-> key, value |-> value])

\* Array.from(map.values()) followed by a reversal.
mapValuesReversed(map) == [j \in 1..Len(map) |-> map[Len(map) + 1 - j].value]

\* Line 39: Array.from(map.values()), the values in insertion order.
mapValues(map) == [j \in 1..Len(map) |-> map[j].value]

\* The callback with the static/live test lost: every later record of a key
\* overwrites the stored one.
visitOverwrite(map, key, card) ==
  [map |-> mapSet(map, key, card), card |-> card]

\* The callback with the key test lost: every record is stored under a key
\* of its own (its position in the map).
visitNoKey(map, key, card) ==
  [map |-> Append(map, [key |-> key, value |-> card]), card |-> card]

\* The callback with the both-live branch (lines 30-33) missing.
visitFirstLive(map, key, card) ==
  [map |-> IF mapHas(map, key)
             THEN IF card.isLive /\ ~mapGet(map, key).isLive
                    THEN mapSet(map, key, card)
                    ELSE map
             ELSE mapSet(map, key, card),
   card |-> card]

\* The callback with first-insertion replaced by "live records only".
visitLiveOnly(map, key, card) ==
  [map |-> IF card.isLive THEN mapSet(map, key, card) ELSE map,
   card |-> card]

\* The callback with an assignment to the visited record (isLive = ... in
\* place of a comparison).
visitAssign(map, key, card) ==
  [map |-> IF mapHas(map, key)
             THEN IF card.isLive THEN mapSet(map, key, card) ELSE map
             ELSE mapSet(map, key, card),
   card |-> [card EXCEPT !.isLive = TRUE]]

\* Lines 23-36, the body of the forEach callback once the key is known: the
\* map after the visit, and the visited record as the callback leaves it (the
\* callback assigns to no field of it).
visit(map, key, card) ==
  [map |-> IF mapHas(map, key)
             THEN LET existing == mapGet(map, key)
                  IN  IF card.isLive /\ ~existing.isLive
                        THEN mapSet(map, key, card)
                        ELSE IF card.isLive /\ existing.isLive
                               THEN mapSet(map, key, card)
                               ELSE map
             ELSE mapSet(map, key, card),
   card |-> card]

\* Lines 19-37: cards.forEach(callback) from index i on.  The result is the
\* map, the array as the call leaves it, and whether a callback threw.
RECURSIVE forEach(_, _, _)
forEach(cards, i, map) ==
  IF i > Len(cards)
    THEN [threw |-> FALSE, map |-> map, cards |-> cards]
    ELSE LET key == cardKey(cards[i])
         IN  IF key.t # "string"
               THEN [threw |-> TRUE, map |-> map, cards |-> cards]
               ELSE LET v == visit(map, key.s, cards[i])
                    IN  forEach([cards EXCEPT ![i] = v.card], i + 1, v.map)

\* Lines 16-40.  value is the returned array (empty when the call threw),
\* cards the argument array after the call.
deduplicateCards(cards) ==
  LET run == forEach(cards, 1, <<>>)
  IN  [threw |-> run.threw,
       value |-> IF run.threw THEN <<>> ELSE mapValues(run.map),
       cards |-> run.cards]

----------------------------------------------------------------------------
(* The Gemini service, src/unnamed/part_001 lines 29-158                   *)

LivePrefix == <<108, 105, 118, 101, 95>>

\* The fullwidth-to-halfwidth replacement of line 33.
HalfwidthUnit(c) ==
  IF \/ c >= 65313 /\ c <= 65338
     \/ c >= 65345 /\ c <= 65370
     \/ c >= 65296 /\ c <= 65305
    THEN c - 65248
    ELSE c

\* Lines 30-36.  The template literal converts both arguments to strings.
generateDeterministicId(bank, name) ==
  LET joined == toLowerCase(StringOf(bank) \o StringOf(name))
      half == [i \in 1..Len(joined) |-> HalfwidthUnit(joined[i])]
  IN  LivePrefix \o StripOthers(half)

\* c.bank || fallback: undefined and the empty string are falsy.
OrElse(v, fallback) ==
  IF v.t = "string" /\ v.s # <<>> THEN v ELSE Str(fallback)

\* Lines 124-143: one element of the parsed response made a CreditCard.
toCreditCard(c) ==
  [id |-> generateDeterministicId(
            OrElse(c.bank, <<98, 97, 110, 107>>),
            OrElse(c.name, <<110, 97, 109, 101>>)),
   bank |-> OrElse(c.bank, <<85, 110, 107, 110, 111, 119, 110, 32, 66, 97, 110, 107>>),
   name |-> OrElse(c.name, <<85, 110, 107, 110, 111, 119, 110, 32, 67, 97, 114, 100>>),
   isLive |-> TRUE]

\* Lines 120-148: the array fetchTrendingCards returns for a parsed response.
parsedCards(json) == [i \in 1..Len(json) |-> toCreditCard(json[i])]

----------------------------------------------------------------------------
(* Data: src/unnamed/part_000 lines 78-141, src/types.ts, App.tsx 462-473   *)

Card(id, bank, name, isLive) ==
  [id |-> id, bank |-> bank, name |-> name, isLive |-> isLive]

MOCK_CARDS ==
  << Card(<<99, 49>>, Str(<<23500, 37030, 37504, 34892>>),
          Str(<<74, 21345>>), FALSE),
     Card(<<99, 50>>, Str(<<22283, 27888, 19990, 33775>>),
          Str(<<67, 85, 66, 69, 21345>>), FALSE),
     Card(<<99, 51>>, Str(<<21488, 26032, 37504, 34892>>),
          Str(<<29611, 29808, 71, 105, 118, 105, 110, 103, 21345>>), FALSE) >>

CardCategory ==
  {"ALL", "CONVENIENCE", "ONLINE", "TRAVEL_JP_KR", "GAS", "GENERAL", "MOBILE_PAY"}

\* The ten query strings of lines 462-473, named by their topic.
DISCOVERY_QUERIES ==
  << "top10", "japan", "online", "overseas", "mobilepay",
     "gas", "dining", "bills", "miles", "premium" >>

\* cards.length > 100 of line 455 and cards.length >= 100 of line 477.
MountLimit == 100
HardStop == 100

----------------------------------------------------------------------------
(* Inputs                                                                  *)

\* Longest argument array handed to deduplicateCards.
MaxLen == 3
\* Most category refreshes started in one run of the application.
MaxRefreshes == 1
\* Most times the mount effects fire (twice under React's strict mode).
MaxMounts == 2
\* Most events (effects, clicks, settled fetches, timers) of a session in
\* which the user acts.
MaxHandled == 6

Foo == <<70, 111, 111>>
Bar == <<66, 97, 114>>
DashBar == <<45, 66, 97, 114>>
FooLower == <<102, 111, 111>>
Fubon == <<23500, 37030>>
JCard == <<74, 21345>>
IdA == <<97>>
IdB == <<98>>

\* Records handed to deduplicateCards: the key "foobar" spelled three ways,
\* live and static, under two ids; a CJK key; an empty name and bank; a bank
\* and a name of stripped characters only; a missing bank; both missing.
SampleCards ==
  { Card(IdA, Str(Foo), Str(Bar), TRUE),
    Card(IdB, Str(Foo), Str(Bar), TRUE),
    Card(IdA, Str(Foo), Str(Bar), FALSE),
    Card(IdB, Str(Foo), Str(Bar), FALSE),
    Card(IdA, Str(Foo), Str(DashBar), TRUE),
    Card(IdA, Str(FooLower), Str(DashBar), FALSE),
    Card(IdA, Str(Fubon), Str(JCard), FALSE),
    Card(IdA, Str(<<>>), Str(<<>>), TRUE),
    Card(IdA, Str(<<45>>), Str(<<32>>), FALSE),
    Card(IdA, Undefined, Str(Bar), TRUE),
    Card(IdA, Undefined, Undefined, FALSE) }

SeqsUpTo(S, n) == UNION {[1..k -> S] : k \in 0..n}

\* Parsed model responses: arrays of objects with a bank and a name.
Responses ==
  { <<>>,
    << [bank |-> Str(Fubon), name |-> Str(JCard)],
       [bank |-> Str(Foo), name |-> Str(Bar)] >>,
    << [bank |-> Str(Foo), name |-> Str(DashBar)],
       [bank |-> Undefined, name |-> Undefined] >> }

\* A stored list of n records with pairwise distinct ids and keys.
Filler(n) ==
  [i \in 1..n |-> Card(<<120, 19968 + i>>, Str(<<98>>), Str(<<19968 + i>>), FALSE)]

\* What localStorage holds under 'smartcard_cards' when the application
\* starts: nothing, or the list an earlier session saved.
NotSaved == [saved |-> FALSE, value |-> <<>>]
Saved(v) == [saved |-> TRUE, value |-> v]

\* JSON.stringify of one record: a property whose value is undefined is
\* left out of the object.
stringifyCard(c) ==
  [f \in {"id", "bank", "name", "isLive"}
           \ {g \in {"bank", "name"} : c[g].t # "string"} |-> c[f]]

\* JSON.parse of one object: a property that is not there reads undefined.
parseCard(j) ==
  [id |-> j["id"],
   bank |-> IF "bank" \in DOMAIN j THEN j["bank"] ELSE Undefined,
   name |-> IF "name" \in DOMAIN j THEN j["name"] ELSE Undefined,
   isLive |-> j["isLive"]]

\* Line 411: JSON.stringify(cards); line 385: JSON.parse(saved).
stringifyCards(cs) == [i \in 1..Len(cs) |-> stringifyCard(cs[i])]
parseCards(js) == [i \in 1..Len(js) |-> parseCard(js[i])]

\* Line 419: Array.from(ownedIds), the members of the Set in a row.
RECURSIVE arrayFrom(_)
arrayFrom(S) ==
  IF S = {} THEN <<>>
  ELSE LET x == CHOOSE y \in S : TRUE IN <<x>> \o arrayFrom(S \ {x})

\* Line 395: new Set(array).
newSet(array) == {array[i] : i \in 1..Len(array)}

\* A fresh installation, or a short saved list.
StoredCards == { NotSaved, Saved(stringifyCards(Filler(2))) }

\* Saved lists just below, at and above the limits of lines 455 and 477.
StoredNearLimit ==
  { Saved(stringifyCards(Filler(HardStop - 2))),
    Saved(stringifyCards(Filler(HardStop))),
    Saved(stringifyCards(Filler(MountLimit + 1))) }

----------------------------------------------------------------------------
(* State                                                                   *)

VARIABLES
  input,            \* the array a caller hands to deduplicateCards
  output,           \* what that call returned
  output2,          \* what deduplicateCards returned for the array in output
  callPc,           \* "ready", "called", "twice"
  cards,            \* useState, line 382
  ownedIds,         \* useState, line 392
  storage,          \* localStorage: smartcard_cards and smartcard_owned_ids
  mounts,           \* times the mount effects have fired
  discoveryStarted, \* useRef, line 452
  mountCards,       \* the cards binding runDiscovery closed over
  runPc,            \* runDiscovery: "idle", "fetching", "delay", "done"
  queryIndex,       \* position of the for loop in DISCOVERY_QUERIES
  discoveryStatus,  \* useState, line 405
  discoveredCount,  \* useState, line 406
  issued,           \* the discovery queries sent so far, in order
  outcome,          \* how the fetch of the current loop iteration settled
  log,              \* what runDiscovery did so far: issue, settle, delay
  runs,             \* calls of runDiscovery so far
  categoryMeta,     \* useState, line 426
  inFlight,         \* categories whose refreshCategory awaits its fetch
  refreshes,        \* refreshCategory calls so far
  view,             \* useState, line 377
  language,         \* useState, line 378
  aiScenario,       \* useState, line 435
  aiResult,         \* useState, line 436
  isAnalyzing,      \* useState, line 437
  aiCalls,          \* calls of analyzeSpendingScenario that have not returned
  apiKey,           \* whether process.env.API_KEY is set (part_001 line 4)
  writable,         \* whether localStorage.setItem succeeds or throws
  tornDown,         \* the component has been unmounted for good
  handled           \* events handled so far in a session of bounded length

callVars == <<input, output, output2, callPc>>
dataVars == <<cards, ownedIds, storage>>
discoveryVars ==
  <<mounts, discoveryStarted, mountCards, runPc, queryIndex, discoveryStatus,
    discoveredCount, issued, outcome, log, runs>>
refreshVars == <<categoryMeta, inFlight, refreshes>>
uiVars == <<view, language, aiScenario, aiResult, isAnalyzing, aiCalls>>
envVars == <<apiKey, writable, tornDown>>
appVars == <<dataVars, discoveryVars, refreshVars, uiVars, envVars>>
vars == <<callVars, appVars, handled>>

NoResult == [threw |-> FALSE, value |-> <<>>, cards |-> <<>>]

\* The local newCards of a loop iteration before its fetch has settled.
Pending == [kind |-> "pending", newCards |-> <<>>]

\* aiResult: null, or the object analyzeSpendingScenario resolved with.
Null == [t |-> "null", bestCardId |-> <<>>]
Result(bestCardId) == [t |-> "result", bestCardId |-> bestCardId]

\* Lines 382-400: the state initialisers read localStorage.
loadCards(item) == IF item.saved THEN parseCards(item.value) ELSE MOCK_CARDS
loadOwnedIds(item) == IF item.saved THEN newSet(item.value) ELSE {<<99, 49>>}

\* Lines 376-437: the component state after the first render.
AppInit(stored) ==
  /\ storage = [cards |-> stored, owned |-> NotSaved]
  /\ cards = loadCards(stored)
  /\ ownedIds = loadOwnedIds(NotSaved)
  /\ mounts = 0
  /\ discoveryStarted = FALSE
  /\ mountCards = <<>>
  /\ runPc = "idle"
  /\ queryIndex = 0
  /\ discoveryStatus = ""
  /\ discoveredCount = 0
  /\ issued = <<>>
  /\ outcome = Pending
  /\ log = <<>>
  /\ runs = 0
  /\ categoryMeta = [c \in CardCategory |-> [lastFetch |-> 0, loading |-> FALSE]]
  /\ inFlight = {}
  /\ refreshes = 0
  /\ view = "HOME"
  /\ language = "zh-TW"
  /\ aiScenario = <<>>
  /\ aiResult = Null
  /\ isAnalyzing = FALSE
  /\ aiCalls = <<>>
  /\ tornDown = FALSE
  /\ handled = 0

CallInit(arg) ==
  /\ input = arg
  /\ output = NoResult
  /\ output2 = NoResult
  /\ callPc = "ready"

----------------------------------------------------------------------------
(* Calls of deduplicateCards                                               *)

\* A caller evaluates deduplicateCards(input): the array object is left as
\* the call leaves it, the component state is not an operand of the call.
Deduplicate ==
  /\ callPc = "ready"
  /\ LET r == deduplicateCards(input)
     IN  /\ output' = r
         /\ input' = r.cards
  /\ callPc' = "called"
  /\ UNCHANGED <<output2, appVars>>

\* The caller hands the returned array to deduplicateCards again.
DeduplicateAgain ==
  /\ callPc = "called"
  /\ ~output.threw
  /\ output2' = deduplicateCards(output.value)
  /\ callPc' = "twice"
  /\ UNCHANGED <<input, output, appVars>>

InitDedup ==
  /\ \E arg \in SeqsUpTo(SampleCards, MaxLen) : CallInit(arg)
  /\ AppInit(NotSaved)
  /\ apiKey = TRUE
  /\ writable = TRUE

NextDedup == (Deduplicate \/ DeduplicateAgain) /\ UNCHANGED handled

SpecDedup == InitDedup /\ [][NextDedup]_vars

----------------------------------------------------------------------------
(* The App component, src/App.tsx lines 376-543                            *)

\* Lines 409-415 with the effect's dependency list empty: the item written
\* at the mount is never written again.
persistCardsOnce(c) == storage.cards

\* Lines 409-415: the effect that follows every change of cards.
persistCards(c) == Saved(stringifyCards(c))

\* Lines 417-423: the effect that follows every change of ownedIds.
persistOwnedIds(o) == Saved(arrayFrom(o))

\* Lines 410-414 and 418-422: localStorage.setItem inside try and catch.  A
\* write that throws (the quota is exceeded, the storage is disabled) is
\* logged and the stored item stays as it was.
setItem(store, key, item) == IF writable THEN [store EXCEPT ![key] = item] ELSE store

\* Lines 409-423: both persistence effects, as they run at the mount.
persisted(c, o) ==
  setItem(setItem(storage, "cards", Saved(stringifyCards(c))), "owned", persistOwnedIds(o))

\* A state setter called after the component was unmounted does nothing.
setState(old, new) == IF tornDown THEN old ELSE new

\* fetchTrendingCards, part_001 lines 38-158: without an API key it returns
\* the empty list; with one it returns the parsed response, or the empty
\* list, or throws RATE_LIMIT.
fetchResults == IF apiKey THEN {parsedCards(json) : json \in Responses} ELSE {<<>>}
fetchMayThrow == apiKey

\* Line 455 without the test of the ref.
effectSkipsByLengthOnly(started, cs) == Len(cs) > MountLimit

\* Line 455: if (discoveryStarted.current || cards.length > 100) return.
effectSkips(started, cs) == started \/ Len(cs) > MountLimit

\* Line 477: cards is the binding runDiscovery closed over, the array of the
\* render in which the mount effect was created, not the cards state of the
\* moment the test runs.
hardStopReached(closure) == Len(closure) >= HardStop

\* The for loop of line 476 walking the list from its end.
loopHeadBackwards(i, closure) ==
  IF i > Len(DISCOVERY_QUERIES) \/ hardStopReached(closure)
    THEN [pc |-> "done", status |-> "", sent |-> <<>>]
    ELSE [pc |-> "fetching",
          status |-> DISCOVERY_QUERIES[Len(DISCOVERY_QUERIES) + 1 - i],
          sent |-> <<Len(DISCOVERY_QUERIES) + 1 - i>>]

\* Lines 476-482 with line 505 left out: the status is not reset at the end.
loopHeadKeepsStatus(i, closure) ==
  IF i > Len(DISCOVERY_QUERIES) \/ hardStopReached(closure)
    THEN [pc |-> "done",
          status |-> IF i > 1 THEN DISCOVERY_QUERIES[i - 1] ELSE "",
          sent |-> <<>>]
    ELSE [pc |-> "fetching", status |-> DISCOVERY_QUERIES[i], sent |-> <<i>>]

\* Lines 476-482 and 505: runDiscovery from the head of the for loop at
\* position i to its next await, or to its end.
loopHead(i, closure) ==
  IF i > Len(DISCOVERY_QUERIES) \/ hardStopReached(closure)
    THEN [pc |-> "done", status |-> "", sent |-> <<>>]
    ELSE [pc |-> "fetching", status |-> DISCOVERY_QUERIES[i], sent |-> <<i>>]

\* What runDiscovery did, as the entries of its log.
Issue(sent) == [j \in 1..Len(sent) |-> [e |-> "issue", q |-> sent[j]]]
Settle(i) == [e |-> "settle", q |-> i]
Delay(i) == [e |-> "delay", q |-> i]

\* Lines 487-494 with the batch thrown away.
mergeKeepsPrev(newCards, prev) == prev

\* Lines 487-494 with the state replaced by the batch.
mergeKeepsBatch(newCards, prev) == newCards

\* Lines 487-494 with the previous state in front of the batch.
mergePrevFirst(newCards, prev) ==
  LET merged == prev \o newCards
      firstOfId(i) == \A j \in 1..(i - 1) : merged[j].id # merged[i].id
      kept == SelectSeq([i \in 1..Len(merged) |-> i], firstOfId)
  IN  [k \in 1..Len(kept) |-> merged[kept[k]]]

\* Lines 487-494 merging into the cards binding of the closure instead of the
\* argument of the updater.
mergeOntoClosure(newCards, prev) ==
  LET merged == newCards \o mountCards
      firstOfId(i) == \A j \in 1..(i - 1) : merged[j].id # merged[i].id
      kept == SelectSeq([i \in 1..Len(merged) |-> i], firstOfId)
  IN  [k \in 1..Len(kept) |-> merged[kept[k]]]

\* Lines 487-494: the fetched batch in front of the previous state, the first
\* record of every id kept.
mergeById(newCards, prev) ==
  LET merged == newCards \o prev
      firstOfId(i) == \A j \in 1..(i - 1) : merged[j].id # merged[i].id
      kept == SelectSeq([i \in 1..Len(merged) |-> i], firstOfId)
  IN  [k \in 1..Len(kept) |-> merged[kept[k]]]

\* Lines 409-423 and 454-509: the effects of the mount.  The persistence
\* effects run, and the discovery effect starts runDiscovery, which runs to
\* its first await.
MountEffects ==
  /\ ~tornDown
  /\ mounts < MaxMounts
  /\ mounts' = mounts + 1
  /\ storage' = persisted(cards, ownedIds)
  /\ IF effectSkips(discoveryStarted, cards)
       THEN UNCHANGED <<discoveryStarted, mountCards, runPc, queryIndex,
                        discoveryStatus, issued, log, runs>>
       ELSE LET h == loopHead(1, cards)
            IN  /\ discoveryStarted' = TRUE
                /\ mountCards' = cards
                /\ queryIndex' = 1
                /\ runPc' = h.pc
                /\ discoveryStatus' = h.status
                /\ issued' = issued \o h.sent
                /\ log' = log \o Issue(h.sent)
                /\ runs' = runs + 1
  /\ UNCHANGED <<cards, ownedIds, discoveredCount, outcome, refreshVars,
                 uiVars, envVars, callVars>>

\* Lines 482-497: the awaited fetch of the discovery loop returns newCards.
DiscoveryFetchReturns(newCards) ==
  /\ runPc = "fetching"
  /\ outcome' = [kind |-> "returned", newCards |-> newCards]
  /\ IF Len(newCards) > 0
       THEN /\ cards' = setState(cards, mergeById(newCards, cards))
            /\ discoveredCount' =
                 setState(discoveredCount, discoveredCount + Len(newCards))
       ELSE UNCHANGED <<cards, discoveredCount>>
  /\ storage' = IF tornDown \/ Len(newCards) = 0
                  THEN storage
                  ELSE setItem(storage, "cards", persistCards(cards'))
  /\ log' = Append(log, Settle(queryIndex))
  /\ runPc' = "delay"
  /\ UNCHANGED <<ownedIds, mounts, discoveryStarted, mountCards, queryIndex,
                 discoveryStatus, issued, runs, refreshVars, uiVars, envVars,
                 callVars>>

\* Lines 498-500 with the error thrown on: runDiscovery ends in its finally
\* block.
DiscoveryFetchAborts ==
  /\ runPc = "fetching"
  /\ fetchMayThrow
  /\ outcome' = [kind |-> "threw", newCards |-> <<>>]
  /\ log' = Append(log, Settle(queryIndex))
  /\ discoveryStatus' = setState(discoveryStatus, "")
  /\ runPc' = "done"
  /\ UNCHANGED <<dataVars, mounts, discoveryStarted, mountCards, queryIndex,
                 discoveredCount, issued, runs, refreshVars, uiVars, envVars,
                 callVars>>

\* Lines 498-500: the awaited fetch throws RATE_LIMIT (part_001 line 153)
\* and the catch block logs it.
DiscoveryFetchThrows ==
  /\ runPc = "fetching"
  /\ fetchMayThrow
  /\ outcome' = [kind |-> "threw", newCards |-> <<>>]
  /\ log' = Append(log, Settle(queryIndex))
  /\ runPc' = "delay"
  /\ UNCHANGED <<dataVars, mounts, discoveryStarted, mountCards, queryIndex,
                 discoveryStatus, discoveredCount, issued, runs, refreshVars,
                 uiVars, envVars, callVars>>

\* Line 503 and back to line 476: the one-second timer fires and the loop
\* goes on to the next query.
DelayElapses ==
  /\ runPc = "delay"
  /\ LET h == loopHead(queryIndex + 1, mountCards)
     IN  /\ queryIndex' = queryIndex + 1
         /\ runPc' = h.pc
         /\ discoveryStatus' = setState(discoveryStatus, h.status)
         /\ issued' = issued \o h.sent
         /\ log' = Append(log, Delay(queryIndex)) \o Issue(h.sent)
  /\ outcome' = Pending
  /\ UNCHANGED <<dataVars, mounts, discoveryStarted, mountCards,
                 discoveredCount, runs, refreshVars, uiVars, envVars, callVars>>

\* The component is unmounted and not mounted again.  The discovery effect
\* returns no cleanup function (lines 454-509), so nothing else happens.
TearDown ==
  /\ mounts > 0
  /\ ~tornDown
  /\ tornDown' = TRUE
  /\ UNCHANGED <<dataVars, discoveryVars, refreshVars, uiVars, apiKey, writable,
                 callVars>>

\* Lines 517-523: the refresh button of a category that is not loading.
RefreshStarts(targetCat) ==
  /\ mounts > 0
  /\ ~tornDown
  /\ view = "HOME"
  /\ ~categoryMeta[targetCat].loading
  /\ refreshes' = refreshes + 1
  /\ categoryMeta' = [categoryMeta EXCEPT ![targetCat].loading = TRUE]
  /\ inFlight' = inFlight \cup {targetCat}
  /\ UNCHANGED <<dataVars, discoveryVars, uiVars, envVars, callVars>>

\* Lines 523-532: the awaited fetch of a refresh returns liveCards.  The
\* timestamp of lastFetch is the number of refreshes started so far.
RefreshFetchReturns(targetCat, liveCards) ==
  /\ targetCat \in inFlight
  /\ inFlight' = inFlight \ {targetCat}
  /\ cards' = IF Len(liveCards) > 0 THEN setState(cards, cards \o liveCards) ELSE cards
  /\ storage' = IF tornDown \/ Len(liveCards) = 0
                  THEN storage
                  ELSE setItem(storage, "cards", persistCards(cards'))
  /\ categoryMeta' =
       setState(categoryMeta,
                [categoryMeta EXCEPT ![targetCat] = [lastFetch |-> refreshes, loading |-> FALSE]])
  /\ UNCHANGED <<ownedIds, discoveryVars, refreshes, uiVars, envVars, callVars>>

\* Line 523 with a fetch that throws RATE_LIMIT: refreshCategory has no
\* catch, its promise rejects and the rest of it does not run.
RefreshFetchThrows(targetCat) ==
  /\ targetCat \in inFlight
  /\ fetchMayThrow
  /\ inFlight' = inFlight \ {targetCat}
  /\ UNCHANGED <<dataVars, discoveryVars, categoryMeta, refreshes, uiVars,
                 envVars, callVars>>

\* The categories whose refresh button is pressed.
RefreshTargets == {"ALL", "ONLINE"}

----------------------------------------------------------------------------
(* The views, the wallet and the advisor, src/App.tsx lines 157-165,       *)
(* 535-543 and 556-834                                                     *)

\* src/types.ts line 64.
ViewState == {"HOME", "WALLET", "SCANNER"}

\* The three children of AnimatePresence.
Panels == {"explore", "wallet", "advisor"}

\* The wallet panel rendered in every view but HOME.
panelShownOffHome(panel, v) ==
  \/ panel = "explore" /\ v = "HOME"
  \/ panel = "wallet" /\ v # "HOME"
  \/ panel = "advisor" /\ v = "SCANNER"

\* Lines 574, 669 and 701: the condition in front of every panel.
panelShown(panel, v) ==
  \/ panel = "explore" /\ v = "HOME"
  \/ panel = "wallet" /\ v = "WALLET"
  \/ panel = "advisor" /\ v = "SCANNER"

rendered(v) == {panel \in Panels : panelShown(panel, v)}

\* Lines 160-162: the three buttons of the dock and the view each one sets.
DockButtons == {"explore", "advisor", "wallet"}
dockTarget(button) ==
  CASE button = "explore" -> "HOME"
    [] button = "advisor" -> "SCANNER"
    [] button = "wallet" -> "WALLET"

\* Lines 160-162: a button of the dock is pressed.
DockClick(button) ==
  /\ mounts > 0
  /\ ~tornDown
  /\ view' = dockTarget(button)
  /\ UNCHANGED <<dataVars, discoveryVars, refreshVars, language, aiScenario,
                 aiResult, isAnalyzing, aiCalls, envVars, callVars>>

\* Line 689: the link of the empty wallet.
WalletExploreClick ==
  /\ mounts > 0
  /\ ~tornDown
  /\ view = "WALLET"
  /\ \A i \in 1..Len(cards) : cards[i].id \notin ownedIds
  /\ view' = "HOME"
  /\ UNCHANGED <<dataVars, discoveryVars, refreshVars, language, aiScenario,
                 aiResult, isAnalyzing, aiCalls, envVars, callVars>>

\* Line 564: the language button.
LanguageClick ==
  /\ mounts > 0
  /\ ~tornDown
  /\ language' = IF language = "zh-TW" THEN "en-US" ELSE "zh-TW"
  /\ UNCHANGED <<dataVars, discoveryVars, refreshVars, view, aiScenario,
                 aiResult, isAnalyzing, aiCalls, envVars, callVars>>

\* Lines 443-449 with activeCategory ALL: the list of the explore panel.
displayedCards == deduplicateCards(cards).value

\* Line 647: the toggle of a row of the explore panel.
ToggleOwned(id) ==
  /\ mounts > 0
  /\ ~tornDown
  /\ view = "HOME"
  /\ \E i \in 1..Len(displayedCards) : displayedCards[i].id = id
  /\ ownedIds' = IF id \in ownedIds THEN ownedIds \ {id} ELSE ownedIds \cup {id}
  /\ storage' = setItem(storage, "owned", persistOwnedIds(ownedIds'))
  /\ UNCHANGED <<cards, discoveryVars, refreshVars, uiVars, envVars, callVars>>

\* Lines 692-694: the toggle of a row of the wallet panel.
WalletRemove(id) ==
  /\ mounts > 0
  /\ ~tornDown
  /\ view = "WALLET"
  /\ id \in ownedIds
  /\ \E i \in 1..Len(cards) : cards[i].id = id
  /\ ownedIds' = ownedIds \ {id}
  /\ storage' = setItem(storage, "owned", persistOwnedIds(ownedIds'))
  /\ UNCHANGED <<cards, discoveryVars, refreshVars, uiVars, envVars, callVars>>

\* String.prototype.trim: the white space and line terminator code units.
isWhiteSpace(u) ==
  \/ u \in {9, 10, 11, 12, 13, 32, 160, 5760, 8232, 8233, 8239, 8287, 12288, 65279}
  \/ u \in 8192..8202

RECURSIVE trimStart(_)
trimStart(s) ==
  IF s # <<>> /\ isWhiteSpace(Head(s)) THEN trimStart(Tail(s)) ELSE s

RECURSIVE trimEnd(_)
trimEnd(s) ==
  IF s # <<>> /\ isWhiteSpace(s[Len(s)]) THEN trimEnd(SubSeq(s, 1, Len(s) - 1)) ELSE s

trim(s) == trimEnd(trimStart(s))

\* Line 540 with the filter left out.
allCardsOf(cs, owned) == cs

\* Line 540: cards.filter(c => ownedIds.has(c.id)).
ownedCardsOf(cs, owned) == SelectSeq(cs, LAMBDA c : c.id \in owned)

\* What is typed into the scenario field: nothing, a space, an ideographic
\* space, "gas", " g ".
Scenarios == { <<>>, <<32>>, <<12288>>, <<103, 97, 115>>, <<32, 103, 32>> }

\* Lines 794 and 807: the scenario field changes.
SetAiScenario(s) ==
  /\ mounts > 0
  /\ ~tornDown
  /\ view = "SCANNER"
  /\ s # aiScenario
  /\ aiScenario' = s
  /\ UNCHANGED <<dataVars, discoveryVars, refreshVars, view, language,
                 aiResult, isAnalyzing, aiCalls, envVars, callVars>>

\* Lines 535-540: the form is submitted (its button is enabled, line 822)
\* and handleAISubmit runs to its await.
HandleAISubmit ==
  /\ mounts > 0
  /\ ~tornDown
  /\ view = "SCANNER"
  /\ ~isAnalyzing
  /\ aiScenario # <<>>
  /\ IF trim(aiScenario) = <<>>
       THEN UNCHANGED <<isAnalyzing, aiResult, aiCalls>>
       ELSE /\ isAnalyzing' = TRUE
            /\ aiResult' = Null
            /\ aiCalls' = Append(aiCalls,
                                 [scenario |-> aiScenario,
                                  ownedCards |-> ownedCardsOf(cards, ownedIds),
                                  language |-> language,
                                  cleared |-> FALSE])
  /\ UNCHANGED <<dataVars, discoveryVars, refreshVars, view, language,
                 aiScenario, envVars, callVars>>

\* 'mock', 'Error' and a competitor's name as code units.
MockId == <<109, 111, 99, 107>>
ErrorId == <<69, 114, 114, 111, 114>>
CompetitorId == <<67>>

\* What the backend does with the request of a call: nothing (no API key,
\* no request is sent), an answer naming a card of the wallet or a
\* competitor, an answer without text, text that is not JSON, a network
\* error, a rate limit (429).
Backend(kind, best) == [kind |-> kind, best |-> best]
Backends(call) ==
  IF ~apiKey
    THEN {Backend("none", <<>>)}
    ELSE {Backend("answer", CompetitorId), Backend("empty", <<>>),
          Backend("unparsable", <<>>), Backend("network", <<>>),
          Backend("rate", <<>>)}
           \cup {Backend("answer", call.ownedCards[i].id) : i \in 1..Len(call.ownedCards)}

\* part_001 lines 160-225 with a catch block that throws the error on.
analyzeRethrows(call, backend) ==
  IF backend.kind \in {"unparsable", "network", "rate"}
    THEN [threw |-> TRUE, value |-> Null]
    ELSE [threw |-> FALSE, value |-> Result(backend.best)]

\* analyzeSpendingScenario, part_001 lines 160-225: the demonstration result
\* without an API key (lines 165-172); with one, the parsed answer of the
\* model (line 209; '{}' for an answer without text, line 203), or the
\* result of the catch block (lines 211-224) for an error of the request
\* and for text that JSON.parse rejects.
analyzeSpendingScenario(call, backend) ==
  CASE backend.kind = "none" ->
         [threw |-> FALSE,
          value |-> Result(IF Len(call.ownedCards) > 0
                             THEN call.ownedCards[1].id ELSE MockId)]
    [] backend.kind = "answer" -> [threw |-> FALSE, value |-> Result(backend.best)]
    [] backend.kind = "empty" -> [threw |-> FALSE, value |-> Result(<<>>)]
    [] backend.kind \in {"unparsable", "network", "rate"} ->
         [threw |-> FALSE, value |-> Result(ErrorId)]

\* Lines 540-542: the awaited analysis settles.  Had it thrown, the rest of
\* handleAISubmit would not run.
AnalysisReturns(backend) ==
  /\ aiCalls # <<>>
  /\ backend \in Backends(Head(aiCalls))
  /\ aiCalls' = Tail(aiCalls)
  /\ LET r == analyzeSpendingScenario(Head(aiCalls), backend)
     IN  IF r.threw
           THEN UNCHANGED <<aiResult, isAnalyzing>>
           ELSE /\ aiResult' = setState(aiResult, r.value)
                /\ isAnalyzing' = setState(isAnalyzing, FALSE)
  /\ UNCHANGED <<dataVars, discoveryVars, refreshVars, view, language,
                 aiScenario, envVars, callVars>>

\* Lines 813-821: the clear button.  The calls in flight are marked as
\* older than the clear; nothing in the code reads the mark.
ClearClick ==
  /\ mounts > 0
  /\ ~tornDown
  /\ view = "SCANNER"
  /\ aiScenario # <<>> \/ aiResult # Null
  /\ aiScenario' = <<>>
  /\ aiResult' = Null
  /\ aiCalls' = [i \in 1..Len(aiCalls) |-> [aiCalls[i] EXCEPT !.cleared = TRUE]]
  /\ UNCHANGED <<dataVars, discoveryVars, refreshVars, view, language,
                 isAnalyzing, envVars, callVars>>

----------------------------------------------------------------------------
(* Specifications                                                          *)

\* A step of a run in which the length of the session is not counted.
Uncounted(A) == A /\ UNCHANGED handled

\* A step of a session of at most MaxHandled events.
Counted(A) == handled < MaxHandled /\ handled' = handled + 1 /\ A

\* The application starts with a storage that takes its writes.
Init ==
  /\ \E stored \in StoredCards : AppInit(stored)
  /\ apiKey \in BOOLEAN
  /\ writable = TRUE
  /\ CallInit(<<>>)

\* The application left to itself but for its refresh buttons: the mount,
\* the discovery loop, the category refreshes and the unmount.
Next ==
  \/ Uncounted(MountEffects)
  \/ Uncounted(\E newCards \in fetchResults : DiscoveryFetchReturns(newCards))
  \/ Uncounted(DiscoveryFetchThrows)
  \/ Uncounted(DelayElapses)
  \/ Uncounted(TearDown)
  \/ Uncounted(refreshes < MaxRefreshes /\ \E c \in RefreshTargets : RefreshStarts(c))
  \/ Uncounted(\E c \in RefreshTargets, liveCards \in fetchResults :
                 RefreshFetchReturns(c, liveCards))
  \/ Uncounted(\E c \in RefreshTargets : RefreshFetchThrows(c))

Spec == Init /\ [][Next]_vars

\* The application started on a saved list whose length is near the limits.
InitNearLimit ==
  /\ \E stored \in StoredNearLimit : AppInit(stored)
  /\ apiKey = TRUE
  /\ writable = TRUE
  /\ CallInit(<<>>)

SpecNearLimit == InitNearLimit /\ [][Next]_vars

\* The application with nobody at its buttons: the mount, the discovery
\* loop and the unmount.
NextDiscovery ==
  \/ Uncounted(MountEffects)
  \/ Uncounted(\E newCards \in fetchResults : DiscoveryFetchReturns(newCards))
  \/ Uncounted(DiscoveryFetchThrows)
  \/ Uncounted(DelayElapses)
  \/ Uncounted(TearDown)

SpecDiscovery == Init /\ [][NextDiscovery]_vars

\* A fresh installation with an API key.
InitFresh ==
  /\ AppInit(NotSaved)
  /\ apiKey = TRUE
  /\ writable = TRUE
  /\ CallInit(<<>>)

\* Every fetch of the discovery loop settles and every timer fires.
SpecDiscoveryFair ==
  /\ InitFresh
  /\ [][NextDiscovery]_vars
  /\ WF_vars(Uncounted(\E newCards \in fetchResults : DiscoveryFetchReturns(newCards)))
  /\ WF_vars(Uncounted(DelayElapses))

\* The ids a toggle may name: those of the cards on the screen.
IdsOf(cs) == {cs[i].id : i \in 1..Len(cs)}

\* A session of a user: every handler of the component, the effects and the
\* settling of every awaited call, in any order.
NextUI ==
  \/ Counted(MountEffects)
  \/ Counted(\E newCards \in fetchResults : DiscoveryFetchReturns(newCards))
  \/ Counted(DiscoveryFetchThrows)
  \/ Counted(DelayElapses)
  \/ Counted(TearDown)
  \/ Counted(refreshes < MaxRefreshes /\ \E c \in RefreshTargets : RefreshStarts(c))
  \/ Counted(\E c \in RefreshTargets, liveCards \in fetchResults :
               RefreshFetchReturns(c, liveCards))
  \/ Counted(\E c \in RefreshTargets : RefreshFetchThrows(c))
  \/ Counted(\E b \in DockButtons : DockClick(b))
  \/ Counted(WalletExploreClick)
  \/ Counted(LanguageClick)
  \/ Counted(\E id \in IdsOf(cards) : ToggleOwned(id))
  \/ Counted(\E id \in ownedIds : WalletRemove(id))
  \/ Counted(\E s \in Scenarios : SetAiScenario(s))
  \/ Counted(HandleAISubmit)
  \/ Counted(\E i \in 1..Len(aiCalls) : \E backend \in Backends(aiCalls[i]) :
               AnalysisReturns(backend))
  \/ Counted(ClearClick)

\* The session starts on a fresh installation, with a storage that takes
\* its writes or with one that throws on every write.
InitUI ==
  /\ AppInit(NotSaved)
  /\ apiKey \in BOOLEAN
  /\ writable \in BOOLEAN
  /\ CallInit(<<>>)

SpecUI == InitUI /\ [][NextUI]_vars

\* The fetches of a session: the mount, the discovery loop and the category
\* refreshes, as many as the length of the session lets the user start.
NextFetches ==
  \/ Counted(MountEffects)
  \/ Counted(\E newCards \in fetchResults : DiscoveryFetchReturns(newCards))
  \/ Counted(DiscoveryFetchThrows)
  \/ Counted(DelayElapses)
  \/ Counted(TearDown)
  \/ Counted(\E c \in RefreshTargets : RefreshStarts(c))
  \/ Counted(\E c \in RefreshTargets, liveCards \in fetchResults :
               RefreshFetchReturns(c, liveCards))
  \/ Counted(\E c \in RefreshTargets : RefreshFetchThrows(c))

SpecFetches == InitFresh /\ [][NextFetches]_vars

\* The advisor and what it reads: the mount, the views, the wallet toggles,
\* the scenario field, submit, clear and the settling of the analysis, in a
\* run of any length.
NextAdvisor ==
  \/ Uncounted(MountEffects)
  \/ Uncounted(TearDown)
  \/ Uncounted(\E b \in DockButtons : DockClick(b))
  \/ Uncounted(\E id \in IdsOf(cards) : ToggleOwned(id))
  \/ Uncounted(\E s \in Scenarios : SetAiScenario(s))
  \/ Uncounted(HandleAISubmit)
  \/ Uncounted(\E i \in 1..Len(aiCalls) : \E backend \in Backends(aiCalls[i]) :
                 AnalysisReturns(backend))
  \/ Uncounted(ClearClick)

\* Every request of the advisor is answered or fails: the call settles.
SpecAdvisor ==
  /\ Init
  /\ [][NextAdvisor]_vars
  /\ WF_vars(Uncounted(\E i \in 1..Len(aiCalls) : \E backend \in Backends(aiCalls[i]) :
                         AnalysisReturns(backend)))

----------------------------------------------------------------------------
(* Properties of deduplicateCards, checked under SpecDedup                 *)

Indices(list) == 1..Len(list)
Range(list) == {list[i] : i \in Indices(list)}

\* The call has returned an array.
Returned == callPc # "ready" /\ ~output.threw

\* The canonical key of a record whose bank + name is a string.
KeyOf(card) == cardKey(card).s
KeysOf(list) == {KeyOf(list[i]) : i \in Indices(list)}

\* Positions of the records of list with canonical key k, live or static.
LiveAt(list, k) == {i \in Indices(list) : KeyOf(list[i]) = k /\ list[i].isLive}
StaticAt(list, k) == {i \in Indices(list) : KeyOf(list[i]) = k /\ ~list[i].isLive}
At(list, k) == LiveAt(list, k) \cup StaticAt(list, k)

Max(S) == CHOOSE m \in S : \A n \in S : n <= m

\* The rearrangements of a list.
Permutations(list) ==
  { [i \in Indices(list) |-> list[f[i]]] :
      f \in {g \in [Indices(list) -> Indices(list)] :
               \A a, b \in Indices(list) : g[a] = g[b] => a = b} }

\* C1: the array deduplicateCards returns holds at most one record per
\* canonical key, so it is no longer than the number of distinct canonical
\* keys of the input.
C1_AtMostOnePerKey ==
  Returned =>
    /\ \A i, j \in Indices(output.value) :
         KeyOf(output.value[i]) = KeyOf(output.value[j]) => i = j
    /\ Len(output.value) <= Cardinality(KeysOf(input))

C1_Witness ==
  /\ Returned
  /\ Len(input) = 3
  /\ Cardinality(KeysOf(input)) = 2
  /\ Len(output.value) = 2

\* C2: for a canonical key with at least one live and at least one static
\* record in the input, the returned record of that key is a live one,
\* wherever those records stand in the input.
C2_LiveNotDisplaced ==
  Returned =>
    \A k \in KeysOf(input) :
      (LiveAt(input, k) # {} /\ StaticAt(input, k) # {}) =>
        /\ LiveAt(output.value, k) # {}
        /\ StaticAt(output.value, k) = {}

\* A live record followed by a static record of the same key.
C2_Witness ==
  /\ Returned
  /\ \E i, j \in Indices(input) :
       /\ i < j
       /\ input[i].isLive
       /\ ~input[j].isLive
       /\ KeyOf(input[i]) = KeyOf(input[j])
       /\ input[i] \in Range(output.value)

\* C3 as stated: the records returned for a rearrangement of the input are
\* the records returned for the input.
C3_OrderIndependentRecords ==
  callPc = "called" /\ ~output.threw =>
    \A p \in Permutations(input) :
      Range(deduplicateCards(p).value) = Range(output.value)

\* Key and provenance of the records of a list.
Provenance(list) == {<<KeyOf(c), c.isLive>> : c \in Range(list)}

\* No two different records of the list share key and provenance.
NoTies(list) ==
  \A i, j \in Indices(list) :
    (KeyOf(list[i]) = KeyOf(list[j]) /\ list[i].isLive = list[j].isLive)
      => list[i] = list[j]

\* C3 amended: the canonical keys returned, and whether the record returned
\* for a key is live, are the same for every rearrangement of the input; the
\* records themselves are the same when no two different input records share
\* both key and provenance.
C3_OrderIndependentKeys ==
  callPc = "called" /\ ~output.threw =>
    \A noTies \in {NoTies(input)} :
      \A p \in Permutations(input) :
        \A q \in {deduplicateCards(p)} :
          /\ ~q.threw
          /\ Provenance(q.value) = Provenance(output.value)
          /\ noTies => Range(q.value) = Range(output.value)

\* A static and a live record of one key, and a second key, in an input of
\* three records (six rearrangements).
C3_Witness ==
  /\ Returned
  /\ Len(input) = 3
  /\ NoTies(input)
  /\ Cardinality(Range(input)) = 3
  /\ Len(output.value) = 2
  /\ \E k \in KeysOf(input) : LiveAt(input, k) # {} /\ StaticAt(input, k) # {}

\* C4: deduplicateCards applied to the array it returned returns the same
\* array, record for record and in the same order.
C4_Idempotent ==
  callPc = "twice" => (~output2.threw /\ output2.value = output.value)

C4_Witness ==
  /\ callPc = "twice"
  /\ Len(input) = 3
  /\ Len(output.value) = 2
  /\ output.value[1] # output.value[2]

\* C5: when the input holds several live records of one canonical key, the
\* returned record of that key is the live record that comes last in the
\* input.
C5_LastLiveWins ==
  Returned =>
    \A k \in KeysOf(input) :
      Cardinality(LiveAt(input, k)) >= 2 =>
        \A j \in At(output.value, k) :
          output.value[j] = input[Max(LiveAt(input, k))]

\* Two different live records of one key, the first of them not returned.
C5_Witness ==
  /\ Returned
  /\ \E i, j \in Indices(input) :
       /\ i < j
       /\ input[i].isLive /\ input[j].isLive
       /\ KeyOf(input[i]) = KeyOf(input[j])
       /\ input[i] # input[j]
       /\ input[j] \in Range(output.value)
       /\ input[i] \notin Range(output.value)

\* C6: every canonical key of the input has exactly one record in the
\* returned array, that record is one of the input records of the key, and a
\* key whose first record is static and which has a later live record is
\* represented by a live record.
C6_EveryKeyOnce ==
  Returned =>
    /\ KeysOf(output.value) = KeysOf(input)
    /\ \A k \in KeysOf(input) :
         /\ Cardinality(At(output.value, k)) = 1
         /\ \A j \in At(output.value, k) :
              /\ \E i \in At(input, k) : input[i] = output.value[j]
              /\ LiveAt(input, k) # {} => output.value[j].isLive
              /\ LiveAt(input, k) = {} =>
                   output.value[j] = input[CHOOSE i \in At(input, k) :
                                             \A h \in At(input, k) : i <= h]

\* A key with static records only, and a key whose static record is followed
\* by a live one.
C6_Witness ==
  /\ Returned
  /\ \E k \in KeysOf(input) : LiveAt(input, k) = {}
  /\ \E i, j \in Indices(input) :
       /\ i < j
       /\ ~input[i].isLive /\ input[j].isLive
       /\ KeyOf(input[i]) = KeyOf(input[j])
       /\ input[j] \in Range(output.value)

\* C7: a call of deduplicateCards leaves the array it was given and every
\* record in it as they were, and changes neither cards, ownedIds nor the
\* stored items.
C7_Pure ==
  [][(callPc = "ready" /\ callPc' = "called") =>
       (input' = input /\ cards' = cards /\ ownedIds' = ownedIds
          /\ storage' = storage)]_vars

\* A call that visited a later live record of a key already stored.
C7_Witness ==
  /\ Returned
  /\ Len(input) >= 2
  /\ Len(output.value) < Len(input)
  /\ \E i \in Indices(input) : ~input[i].isLive

\* C8: deduplicateCards returns an array for every input and never raises
\* an error, also for records whose bank or name is empty, missing or made of
\* stripped characters only.
C8_Total == callPc # "ready" => ~output.threw

\* The spelling of a record's bank + name with the letters A-Z lowered and
\* only the letters, the digits and the CJK range kept.
IsLetterDigitCJK(c) ==
  \/ c >= 65 /\ c <= 90
  \/ c >= 97 /\ c <= 122
  \/ c >= 48 /\ c <= 57
  \/ c >= 19968 /\ c <= 40869

Lowered(c) == IF c >= 65 /\ c <= 90 THEN c + 32 ELSE c

Canonical(card) ==
  LET kept == SelectSeq(card.bank.s \o card.name.s, IsLetterDigitCJK)
  IN  [i \in 1..Len(kept) |-> Lowered(kept[i])]

HasStrings(card) == card.bank.t = "string" /\ card.name.t = "string"

\* C9: the canonical key of a record is its bank + name, lower-cased, with
\* every character outside a-z, 0-9 and U+4E00..U+9FA5 removed; so records
\* whose bank + name differ only in case, spacing or punctuation collapse to
\* one returned record, and records that differ otherwise do not.
C9_CanonicalKey ==
  /\ \A i \in Indices(input) :
       HasStrings(input[i]) =>
         cardKey(input[i]) = Str(Canonical(input[i]))
  /\ Returned =>
       \A i \in Indices(input) :
         HasStrings(input[i]) =>
           Cardinality({j \in Indices(output.value) :
                          /\ HasStrings(output.value[j])
                          /\ Canonical(output.value[j]) = Canonical(input[i])}) = 1

\* "Foo" + "Bar" and "Foo" + "-Bar" (or "foo" + "-Bar") in one input, one
\* record returned.
C9_Witness ==
  /\ Returned
  /\ Len(output.value) = 1
  /\ \E i, j \in Indices(input) :
       /\ HasStrings(input[i]) /\ HasStrings(input[j])
       /\ input[i].bank.s \o input[i].name.s # input[j].bank.s \o input[j].name.s
       /\ Canonical(input[i]) = Canonical(input[j])

----------------------------------------------------------------------------
(* Properties of the discovery loop, checked under SpecNearLimit           *)

\* C10: once the cards state holds 100 records or more, the discovery loop
\* sends no further query.
C10_StopsAtThreshold ==
  [][Len(cards) >= HardStop => issued' = issued]_vars

----------------------------------------------------------------------------
(* Properties of the discovery loop, checked under SpecDiscovery           *)

\* The k-th thing a run does that sends its queries one by one: query 1 is
\* issued, it settles, the delay elapses, query 2 is issued, ...
StepKind(k) == << "issue", "settle", "delay" >>[((k - 1) % 3) + 1]
StepQuery(k) == ((k - 1) \div 3) + 1

InFlight ==
  Cardinality({k \in Indices(log) : log[k].e = "issue"})
    - Cardinality({k \in Indices(log) : log[k].e = "settle"})

\* C11: the discovery queries are issued in the order of the list, at most
\* one of them is in flight at any time, and query i+1 is issued only after
\* query i has settled and the delay that follows it has elapsed.
C11_SequentialAndSpaced ==
  /\ issued = [k \in Indices(issued) |-> k]
  /\ InFlight \in {0, 1}
  /\ InFlight = 1 <=> runPc = "fetching"
  /\ \A k \in Indices(log) : log[k].e = StepKind(k) /\ log[k].q = StepQuery(k)

\* The whole list has been sent and the run has ended.
C11_Witness ==
  /\ runPc = "done"
  /\ Len(issued) = Len(DISCOVERY_QUERIES)
  /\ Len(log) = 3 * Len(DISCOVERY_QUERIES)

\* C12: once the component that started the discovery run is torn down, the
\* run issues no further query and updates none of cards, discoveredCount
\* and discoveryStatus.
C12_NothingAfterTearDown ==
  [][tornDown =>
       /\ issued' = issued
       /\ cards' = cards
       /\ discoveredCount' = discoveredCount
       /\ discoveryStatus' = discoveryStatus]_vars

\* C19: however many times the mount effect fires, runDiscovery is called at
\* most once and every query of the list is issued at most once.
C19_StartedAtMostOnce ==
  /\ runs <= 1
  /\ \A i, j \in Indices(issued) : issued[i] = issued[j] => i = j
  /\ Len(issued) <= Len(DISCOVERY_QUERIES)

\* The mount effect fired twice and one run sent the whole list.
C19_Witness ==
  /\ mounts = MaxMounts
  /\ runs = 1
  /\ runPc = "done"
  /\ Len(issued) = Len(DISCOVERY_QUERIES)

\* C20: a discovery query whose fetch throws leaves cards and discoveredCount
\* as they were, is followed by the delay, and the query after it is issued
\* next; the run ends only when the whole list has been issued.
C20_FailureDoesNotAbort ==
  [][/\ (runPc = "fetching" /\ outcome'.kind = "threw") =>
          /\ cards' = cards
          /\ discoveredCount' = discoveredCount
          /\ runPc' = "delay"
          /\ issued' = issued
     /\ (outcome.kind = "threw" /\ runPc' # runPc) =>
          /\ runPc = "delay"
          /\ IF queryIndex < Len(DISCOVERY_QUERIES)
               THEN runPc' = "fetching" /\ issued' = Append(issued, queryIndex + 1)
               ELSE runPc' = "done" /\ issued' = issued
     /\ runPc' = "done" => Len(issued') = Len(DISCOVERY_QUERIES)]_vars

\* The ninth query has thrown after earlier ones brought cards, and the loop
\* is in its delay.
C20_Witness ==
  /\ outcome.kind = "threw"
  /\ runPc = "delay"
  /\ queryIndex = Len(DISCOVERY_QUERIES) - 1
  /\ discoveredCount > 0
  /\ ~tornDown

----------------------------------------------------------------------------
(* Properties of the category refresh, checked under Spec                  *)

\* C17: the ids of the records of the cards state are pairwise distinct.
C17_DistinctIds ==
  \A i, j \in Indices(cards) : cards[i].id = cards[j].id => i = j

\* C18: a category of the mounted component is loading only while its
\* refreshCategory call is still waiting for its fetch, so every call that
\* has ended, however its fetch settled, has set loading back to false.
C18_LoadingOnlyWhileInFlight ==
  ~tornDown => \A c \in CardCategory : categoryMeta[c].loading => c \in inFlight

----------------------------------------------------------------------------
(* Properties of a session, checked under SpecUI                           *)

\* C13: after the merge step of a discovery query that returned a batch, the
\* cards state holds a record for every id of the batch.
C13_MergeHoldsBatch ==
  [][(runPc = "fetching" /\ runPc' = "delay" /\ outcome'.kind = "returned"
        /\ ~tornDown) =>
       \A i \in Indices(outcome'.newCards) :
         \E j \in Indices(cards') : cards'[j].id = outcome'.newCards[i].id]_vars

\* A batch has just been merged into a list that earlier batches had grown.
C13_Witness ==
  /\ runPc = "delay"
  /\ outcome.kind = "returned"
  /\ Len(outcome.newCards) > 0
  /\ discoveredCount > Len(outcome.newCards)
  /\ ~tornDown
  /\ \A i \in Indices(outcome.newCards) :
       \E j \in Indices(cards) : cards[j].id = outcome.newCards[i].id

\* C14: the view is one of HOME, WALLET and SCANNER, one panel is rendered,
\* the first view is HOME, and from every view a press of one dock button
\* leads to each of the two others.
C14_ThreeViews ==
  /\ view \in {"HOME", "WALLET", "SCANNER"}
  /\ Cardinality(rendered(view)) = 1
  /\ handled = 0 => view = "HOME"
  /\ (mounts > 0 /\ ~tornDown) =>
       \A v \in {"HOME", "WALLET", "SCANNER"} \ {view} :
         \E b \in DockButtons : ENABLED (DockClick(b) /\ view' = v)

\* The advisor reached from the wallet.
C14_Witness ==
  /\ view = "SCANNER"
  /\ handled >= 3
  /\ rendered(view) = {"advisor"}

\* C15: a submit of a scenario that is not blank passes to
\* analyzeSpendingScenario the records of cards whose id is in ownedIds, in
\* their order; a submit of a scenario of white space sends nothing and
\* changes no state.
C15_RequestOverOwnedCards ==
  [][HandleAISubmit =>
       IF \A k \in Indices(aiScenario) : isWhiteSpace(aiScenario[k])
         THEN UNCHANGED appVars
         ELSE /\ Len(aiCalls') = Len(aiCalls) + 1
              /\ aiCalls'[Len(aiCalls')].ownedCards =
                   SelectSeq(cards, LAMBDA c : c.id \in ownedIds)
              /\ aiCalls'[Len(aiCalls')].scenario = aiScenario]_vars

\* A request over a wallet that holds some of the cards and not all.
C15_Witness ==
  /\ isAnalyzing
  /\ \E k \in Indices(aiCalls) :
       /\ aiCalls[k].ownedCards # <<>>
       /\ Len(aiCalls[k].ownedCards) < Len(cards)

\* What an application started from the two items of localStorage begins
\* with (lines 382-400).
DecodedCards == IF storage.cards.saved THEN parseCards(storage.cards.value) ELSE MOCK_CARDS
DecodedOwned ==
  IF storage.owned.saved THEN Range(storage.owned.value) ELSE {<<99, 49>>}

Restarts == DecodedCards = cards /\ DecodedOwned = ownedIds

\* Both items are there and hold the cards list and the owned ids.
Encodes ==
  /\ storage.cards.saved /\ storage.owned.saved
  /\ parseCards(storage.cards.value) = cards
  /\ Range(storage.owned.value) = ownedIds
  /\ Len(storage.owned.value) = Cardinality(ownedIds)

----------------------------------------------------------------------------
(* Termination of the discovery loop, checked under SpecDiscoveryFair      *)

\* C21: a discovery run whose fetches all settle ends after at most ten
\* queries with discoveryStatus reset to the empty string; discoveryStatus
\* of the mounted component is not empty only while a run is in progress,
\* and is then the query being processed.
C21_Terminates ==
  /\ [](Len(issued) <= Len(DISCOVERY_QUERIES))
  /\ [](~tornDown =>
          /\ runPc \in {"idle", "done"} => discoveryStatus = ""
          /\ runPc \in {"fetching", "delay"} =>
               discoveryStatus = DISCOVERY_QUERIES[queryIndex])
  /\ (runPc # "idle") ~> (runPc = "done")

\* The run of a mounted component has ended after ten queries, some of which
\* brought cards, and the status is empty.
C21_Witness ==
  /\ runPc = "done"
  /\ ~tornDown
  /\ queryIndex = Len(DISCOVERY_QUERIES) + 1
  /\ discoveredCount > 0
  /\ discoveryStatus = ""

----------------------------------------------------------------------------
(* Properties of the merge, checked under SpecUI                           *)

\* A step in which the fetch of the discovery loop returns a batch that the
\* mounted component merges.
MergeStep ==
  /\ runPc = "fetching" /\ runPc' = "delay"
  /\ outcome'.kind = "returned"
  /\ Len(outcome'.newCards) > 0
  /\ ~tornDown

\* The records of a list whose id is not an id of the batch.
OthersOf(list, batch) ==
  SelectSeq(list, LAMBDA c : \A i \in Indices(batch) : batch[i].id # c.id)

\* The first record of every id of a list, in the order of the list.
FirstOfEachId(list) ==
  LET first == SelectSeq([i \in Indices(list) |-> i],
                         LAMBDA i : \A j \in 1..(i - 1) : list[j].id # list[i].id)
  IN  [k \in Indices(first) |-> list[first[k]]]

NewestFirst ==
  /\ \A i, j \in Indices(cards') : cards'[i].id = cards'[j].id => i = j
  /\ \A i \in Indices(outcome'.newCards) :
       (\A j \in 1..(i - 1) : outcome'.newCards[j].id # outcome'.newCards[i].id) =>
         \E k \in Indices(cards') : cards'[k] = outcome'.newCards[i]

C23_IdsNeverDisappear ==
  [][/\ \A i \in Indices(cards) : \E j \in Indices(cards') : cards'[j].id = cards[i].id
     /\ \A id \in ownedIds \cap ownedIds' :
          (\E i \in Indices(cards) : cards[i].id = id) =>
            (\E j \in Indices(cards') : cards'[j].id = id)]_vars

\* A discovered card is owned, and a batch was merged after it was added to
\* the wallet.
C23_Witness ==
  /\ \E id \in ownedIds :
       /\ id # <<99, 49>>
       /\ \E i \in Indices(cards) : cards[i].id = id /\ cards[i].isLive
  /\ runPc = "delay"
  /\ outcome.kind = "returned"
  /\ Len(outcome.newCards) > 0
  /\ queryIndex > 1

----------------------------------------------------------------------------
(* Interleaved fetches, checked under SpecFetches                          *)

\* C24: with a refresh and the discovery loop, or two refreshes, in flight
\* together, in whatever order the responses arrive every id a fetch
\* returned is in cards from then on, and the entry of a category in
\* categoryMeta is changed only by the start and the return of its own
\* refresh.
C24_NoLostUpdate ==
  [][~tornDown =>
       /\ \A i \in Indices(cards) : \E j \in Indices(cards') : cards'[j].id = cards[i].id
       /\ MergeStep =>
            /\ \A i \in Indices(outcome'.newCards) :
                 \E j \in Indices(cards') : cards'[j].id = outcome'.newCards[i].id
            /\ categoryMeta' = categoryMeta
       /\ \A c \in CardCategory :
            /\ \A liveCards \in fetchResults :
                 RefreshFetchReturns(c, liveCards) =>
                   /\ \A i \in Indices(liveCards) :
                        \E j \in Indices(cards') : cards'[j] = liveCards[i]
                   /\ categoryMeta'[c] = [lastFetch |-> refreshes, loading |-> FALSE]
            /\ categoryMeta'[c] # categoryMeta[c] =>
                 \/ RefreshStarts(c)
                 \/ \E liveCards \in fetchResults : RefreshFetchReturns(c, liveCards)]_vars

\* Two refreshes were in flight together while the discovery loop ran, both
\* responses have arrived and cards holds what each returned.
C24_Witness ==
  /\ ~tornDown
  /\ categoryMeta["ALL"] = [lastFetch |-> 2, loading |-> FALSE]
  /\ categoryMeta["ONLINE"] = [lastFetch |-> 2, loading |-> FALSE]
  /\ inFlight = {}
  /\ Len(cards) > Cardinality({cards[i].id : i \in Indices(cards)})

----------------------------------------------------------------------------
(* Properties of the advisor, checked under SpecAdvisor                    *)

\* C25: after the clear button is pressed aiResult stays null until a
\* submission made after the clear completes: an analysis that was in flight
\* at the clear does not set it.
C25_ClearIsFinal ==
  [][(~tornDown /\ aiCalls # <<>> /\ Head(aiCalls).cleared) => aiResult' = Null]_vars

Failed(backend) == backend.kind \in {"unparsable", "network", "rate"}

\* C26: a submit of a scenario that is not blank sets isAnalyzing and makes
\* aiResult null; whatever the backend does the analysis returns a value,
\* so the mounted component leaves isAnalyzing with an aiResult that is not
\* null, and whose bestCardId is 'Error' when the request failed; and every
\* analysis in progress comes to that.
C26_SubmissionCompletes ==
  /\ [][/\ (HandleAISubmit /\ trim(aiScenario) # <<>>) =>
             (isAnalyzing' /\ aiResult' = Null /\ Len(aiCalls') = 1)
        /\ (~tornDown /\ aiCalls # <<>>) =>
             \A backend \in Backends(Head(aiCalls)) :
               AnalysisReturns(backend) =>
                 /\ ~isAnalyzing'
                 /\ aiResult' # Null
                 /\ Failed(backend) => aiResult'.bestCardId = ErrorId]_vars
  /\ [](~tornDown => (isAnalyzing <=> aiCalls # <<>>))
  /\ (isAnalyzing /\ ~tornDown) ~> (~isAnalyzing \/ tornDown)

\* A request has failed and the advisor shows the error result.
C26_Witness ==
  /\ ~tornDown
  /\ ~isAnalyzing
  /\ aiCalls = <<>>
  /\ aiResult = Result(ErrorId)
  /\ aiScenario # <<>>

====
